---- MODULE Spec2Model ----
(***************************************************************************)
(* Model of the two driver programs of the repository:                     *)
(*   StandAlone/minimal-test.cpp   (the harness: preprocess, parse, link,  *)
(*                                  generate, disassemble one HLSL unit)   *)
(*   StandAlone/shared_glslang.cpp (the shared-library smoke test)         *)
(* Every statement of either main() that calls the library, allocates,     *)
(* frees, prints library data or returns is one action.  The library       *)
(* functions themselves are operators; their bodies are not part of the    *)
(* three source files and follow sections 3, 4 and 6 of the specification. *)
(***************************************************************************)
EXTENDS Integers, Sequences, FiniteSets, TLC

VARIABLES
    prog,          \* which main() runs: "harness" or "smoke"
    pc,            \* position in main(), named after the source line
    initCount,     \* calls of glslang_initialize_process so far
    finalCount,    \* calls of glslang_finalize_process so far
    heap,          \* life of each object: "none", "live" or "freed"
    shader,        \* contents of the glslang_shader_t
    program,       \* contents of the glslang_program_t
    size,          \* local size_t size (line 134)
    words,         \* contents of the caller-owned uint32_t* words
    disassembled,  \* contents of the char* returned by disassemble
    spirv_messages,\* local const char* spirv_messages: "unset", "null", "text"
    status,        \* value returned by main()
    trace          \* the calls made so far, in order

vars == <<prog, pc, initCount, finalCount, heap, shader, program, size,
          words, disassembled, spirv_messages, status, trace>>

----------------------------------------------------------------------------
(* Bounds *)

\* longest instruction body the generator emits after the entry point
MaxBody == 2

----------------------------------------------------------------------------
(* The compilation unit of the harness *)

\* functions defined by shaderSource (lines 32 and 43)
shaderSource == {"vertex", "pixel"}

\* variant of input: the two entry-point names exchanged
input_NamesExchanged ==
    [code              |-> shaderSource,
     stage             |-> "fragment",
     entrypoint        |-> "pixel",
     source_entrypoint |-> "main"]

\* the glslang_input_t of lines 63-79, the fields the pipeline reads
input == [code              |-> shaderSource,
          stage             |-> "fragment",
          entrypoint        |-> "main",
          source_entrypoint |-> "pixel"]

Objects == {"shader", "program", "words", "disassembled"}

----------------------------------------------------------------------------
(* The library, as the specification describes it *)

\* symbol names the binary format can refer to, by index
Names == <<"main", "pixel", "vertex">>

NameIndex(n) == CHOOSE i \in 1..Len(Names) : Names[i] = n

\* word layout: opcode * WordBase + operand
WordBase == 16
Magic == 0
OpEntryPoint == 15
OpReturn == 2
OpLabel == 3

EntryPointWord(n) == OpEntryPoint * WordBase + NameIndex(n)

\* words the generator may emit after the entry point
BodyWords == {OpLabel * WordBase, OpReturn * WordBase}

RECURSIVE SeqsUpTo(_, _)
SeqsUpTo(S, n) ==
    IF n = 0 THEN {<<>>}
    ELSE LET shorter == SeqsUpTo(S, n - 1)
         IN  shorter \cup {Append(s, x) : s \in shorter, x \in S}

NoShader == [state |-> "none", entrypoint |-> "", symbols |-> {},
             entrySource |-> "", log |-> <<>>]

NoProgram == [state |-> "none", entrypoint |-> "", symbols |-> {},
              entrySource |-> "", spirv |-> <<>>, messages |-> "null",
              log |-> <<>>]

\* glslang_shader_create(&input)
ShaderCreate(inp) ==
    [NoShader EXCEPT !.state = "created", !.entrypoint = inp.entrypoint]

\* glslang_shader_preprocess: expanded text or PreprocessError
ShaderPreprocess(sh, inp, ok) ==
    IF ok THEN [sh EXCEPT !.state = "preprocessed"]
    ELSE [sh EXCEPT !.state = "preprocess_failed",
                    !.log = Append(sh.log, "PreprocessError")]

\* the renaming of section 4.2: the source-level entry function is exposed
\* under the configured entry symbol
Rename(funcs, from, to) == {IF f = from THEN to ELSE f : f \in funcs}

\* glslang_shader_parse: IR or ParseError; no partial IR on failure
ShaderParse(sh, inp, ok) ==
    IF ok
    THEN [sh EXCEPT !.state = "parsed",
                    !.symbols = Rename(inp.code, inp.source_entrypoint,
                                       inp.entrypoint),
                    !.entrySource =
                        IF inp.source_entrypoint \in inp.code
                        THEN inp.source_entrypoint ELSE ""]
    ELSE [sh EXCEPT !.state = "parse_failed",
                    !.log = Append(sh.log, "ParseError")]

\* glslang_program_create()
ProgramCreate == [NoProgram EXCEPT !.state = "created"]

\* glslang_program_add_shader(program, shader)
ProgramAddShader(p, sh) ==
    [p EXCEPT !.entrypoint = sh.entrypoint,
              !.symbols = p.symbols \cup sh.symbols,
              !.entrySource = sh.entrySource]

\* glslang_program_link: a Program or LinkError (missing entry point or
\* another failed validation)
ProgramLink(p, ok) ==
    IF ok /\ p.entrypoint \in p.symbols
    THEN [p EXCEPT !.state = "linked"]
    ELSE [p EXCEPT !.state = "link_failed",
                   !.log = Append(p.log, "LinkError")]

\* glslang_program_SPIRV_generate: the counted word sequence and the
\* optional messages string, both owned by the program
ProgramGenerate(p, body, msgs) ==
    [p EXCEPT !.state = "generated",
              !.spirv = <<Magic, EntryPointWord(p.entrypoint)>> \o body,
              !.messages = msgs]

\* one line of disassembly text per word
DisassembleWord(w) ==
    IF w \div WordBase = OpEntryPoint
    THEN <<"OpEntryPoint", Names[w % WordBase]>>
    ELSE IF w \div WordBase = OpReturn THEN <<"OpReturn", "">>
    ELSE IF w \div WordBase = OpLabel THEN <<"OpLabel", "">>
    ELSE <<"Header", "">>

\* glslang_SPIRV_disassemble(words, count): text of the first count words
Disassemble(ws, count) == [i \in 1..count |-> DisassembleWord(ws[i])]

----------------------------------------------------------------------------
(* Steps shared by the actions *)

\* a call or statement `op` that uses the objects `objs`
Event(op, objs) == [op |-> op, objs |-> objs]

\* statement at `from` performs `op` on `obj` and continues at `to`
Step(from, to, op, obj) ==
    /\ pc = from
    /\ pc' = to
    /\ trace' = Append(trace, Event(op, IF obj = "none" THEN {} ELSE {obj}))

Init ==
    /\ prog \in {"harness", "smoke"}
    /\ pc = IF prog = "harness" THEN "h10" ELSE "s11"
    /\ initCount = 0
    /\ finalCount = 0
    /\ heap = [o \in Objects |-> "none"]
    /\ shader = NoShader
    /\ program = NoProgram
    /\ size = 0
    /\ words = <<>>
    /\ disassembled = <<>>
    /\ spirv_messages = "unset"
    /\ status = 0
    /\ trace = <<>>

----------------------------------------------------------------------------
(* minimal-test.cpp: main() up to the creation of the shader *)

\* line 10: glslang_initialize_process()
H_InitializeProcess ==
    /\ prog = "harness"
    /\ Step("h10", "h78", "initialize_process", "none")
    /\ initCount' = initCount + 1
    /\ UNCHANGED <<prog, finalCount, heap, shader, program, size, words,
                   disassembled, spirv_messages, status>>

\* line 78: .resource = glslang_default_resource()
H_DefaultResource ==
    /\ prog = "harness"
    /\ Step("h78", "h83", "default_resource", "none")
    /\ UNCHANGED <<prog, initCount, finalCount, heap, shader, program, size,
                   words, disassembled, spirv_messages, status>>

\* line 83: shader = glslang_shader_create(&input)
H_ShaderCreate ==
    /\ prog = "harness"
    /\ Step("h83", "h87", "shader_create", "shader")
    /\ shader' = ShaderCreate(input)
    /\ heap' = [heap EXCEPT !["shader"] = "live"]
    /\ UNCHANGED <<prog, initCount, finalCount, program, size, words,
                   disassembled, spirv_messages, status>>

----------------------------------------------------------------------------
(* minimal-test.cpp: preprocess and its failure branch, lines 87-94 *)

\* variant of H_Preprocess: the result of preprocess is not tested
H_Preprocess_ResultIgnored ==
    /\ prog = "harness"
    /\ pc = "h87"
    /\ \E ok \in BOOLEAN : shader' = ShaderPreprocess(shader, input, ok)
    /\ pc' = "h98"
    /\ trace' = Append(trace, Event("shader_preprocess", {"shader"}))
    /\ UNCHANGED <<prog, initCount, finalCount, heap, program, size, words,
                   disassembled, spirv_messages, status>>

\* line 87: if (!glslang_shader_preprocess(shader, &input))
H_Preprocess ==
    /\ prog = "harness"
    /\ pc = "h87"
    /\ \E ok \in BOOLEAN :
         LET sh == ShaderPreprocess(shader, input, ok) IN
         /\ shader' = sh
         /\ pc' = IF sh.state = "preprocessed" THEN "h98" ELSE "h89"
    /\ trace' = Append(trace, Event("shader_preprocess", {"shader"}))
    /\ UNCHANGED <<prog, initCount, finalCount, heap, program, size, words,
                   disassembled, spirv_messages, status>>

\* line 89: printf(glslang_shader_get_info_log(shader))
H_PreprocessFail_InfoLog ==
    /\ prog = "harness"
    /\ Step("h89", "h90", "shader_get_info_log", "shader")
    /\ UNCHANGED <<prog, initCount, finalCount, heap, shader, program, size,
                   words, disassembled, spirv_messages, status>>

\* line 90: printf(glslang_shader_get_info_debug_log(shader))
H_PreprocessFail_DebugLog ==
    /\ prog = "harness"
    /\ Step("h90", "h91", "shader_get_info_debug_log", "shader")
    /\ UNCHANGED <<prog, initCount, finalCount, heap, shader, program, size,
                   words, disassembled, spirv_messages, status>>

\* line 91: printf(input.code)
H_PreprocessFail_PrintCode ==
    /\ prog = "harness"
    /\ Step("h91", "h92", "print_input_code", "none")
    /\ UNCHANGED <<prog, initCount, finalCount, heap, shader, program, size,
                   words, disassembled, spirv_messages, status>>

\* line 92: glslang_shader_delete(shader)
H_PreprocessFail_ShaderDelete ==
    /\ prog = "harness"
    /\ Step("h92", "h93", "shader_delete", "shader")
    /\ heap' = [heap EXCEPT !["shader"] = "freed"]
    /\ UNCHANGED <<prog, initCount, finalCount, shader, program, size, words,
                   disassembled, spirv_messages, status>>

\* line 93: return 1
H_PreprocessFail_Return ==
    /\ prog = "harness"
    /\ Step("h93", "exit", "return", "none")
    /\ status' = 1
    /\ UNCHANGED <<prog, initCount, finalCount, heap, shader, program, size,
                   words, disassembled, spirv_messages>>

----------------------------------------------------------------------------
(* minimal-test.cpp: parse and its failure branch, lines 98-106 *)

\* line 98: if (!glslang_shader_parse(shader, &input))
H_Parse ==
    /\ prog = "harness"
    /\ pc = "h98"
    /\ \E ok \in BOOLEAN :
         LET sh == ShaderParse(shader, input, ok) IN
         /\ shader' = sh
         /\ pc' = IF sh.state = "parsed" THEN "h110" ELSE "h100"
    /\ trace' = Append(trace, Event("shader_parse", {"shader"}))
    /\ UNCHANGED <<prog, initCount, finalCount, heap, program, size, words,
                   disassembled, spirv_messages, status>>

\* line 100: printf(glslang_shader_get_info_log(shader))
H_ParseFail_InfoLog ==
    /\ prog = "harness"
    /\ Step("h100", "h101", "shader_get_info_log", "shader")
    /\ UNCHANGED <<prog, initCount, finalCount, heap, shader, program, size,
                   words, disassembled, spirv_messages, status>>

\* line 101: printf(glslang_shader_get_info_debug_log(shader))
H_ParseFail_DebugLog ==
    /\ prog = "harness"
    /\ Step("h101", "h102", "shader_get_info_debug_log", "shader")
    /\ UNCHANGED <<prog, initCount, finalCount, heap, shader, program, size,
                   words, disassembled, spirv_messages, status>>

\* line 102: printf(glslang_shader_get_preprocessed_code(shader))
H_ParseFail_PreprocessedCode ==
    /\ prog = "harness"
    /\ Step("h102", "h103", "shader_get_preprocessed_code", "shader")
    /\ UNCHANGED <<prog, initCount, finalCount, heap, shader, program, size,
                   words, disassembled, spirv_messages, status>>

\* variant of H_ParseFail_ShaderDelete: the shader is not deleted
H_ParseFail_ShaderDelete_Omitted ==
    /\ prog = "harness"
    /\ pc = "h103"
    /\ pc' = "h104"
    /\ UNCHANGED <<prog, initCount, finalCount, heap, shader, program, size,
                   words, disassembled, spirv_messages, status, trace>>

\* line 103: glslang_shader_delete(shader)
H_ParseFail_ShaderDelete ==
    /\ prog = "harness"
    /\ Step("h103", "h104", "shader_delete", "shader")
    /\ heap' = [heap EXCEPT !["shader"] = "freed"]
    /\ UNCHANGED <<prog, initCount, finalCount, shader, program, size, words,
                   disassembled, spirv_messages, status>>

\* line 104: glslang_finalize_process()
H_ParseFail_FinalizeProcess ==
    /\ prog = "harness"
    /\ Step("h104", "h105", "finalize_process", "none")
    /\ finalCount' = finalCount + 1
    /\ UNCHANGED <<prog, initCount, heap, shader, program, size, words,
                   disassembled, spirv_messages, status>>

\* line 105: return 1
H_ParseFail_Return ==
    /\ prog = "harness"
    /\ Step("h105", "exit", "return", "none")
    /\ status' = 1
    /\ UNCHANGED <<prog, initCount, finalCount, heap, shader, program, size,
                   words, disassembled, spirv_messages>>

----------------------------------------------------------------------------
(* minimal-test.cpp: program creation, link and its failure branch *)

\* line 110: program = glslang_program_create()
H_ProgramCreate ==
    /\ prog = "harness"
    /\ Step("h110", "h114", "program_create", "program")
    /\ program' = ProgramCreate
    /\ heap' = [heap EXCEPT !["program"] = "live"]
    /\ UNCHANGED <<prog, initCount, finalCount, shader, size, words,
                   disassembled, spirv_messages, status>>

\* line 114: glslang_program_add_shader(program, shader)
H_ProgramAddShader ==
    /\ prog = "harness"
    /\ pc = "h114"
    /\ pc' = "h118"
    /\ trace' = Append(trace, Event("program_add_shader",
                                    {"program", "shader"}))
    /\ program' = ProgramAddShader(program, shader)
    /\ UNCHANGED <<prog, initCount, finalCount, heap, shader, size, words,
                   disassembled, spirv_messages, status>>

\* variant of H_Link: the result of link is not tested
H_Link_ResultIgnored ==
    /\ prog = "harness"
    /\ pc = "h118"
    /\ \E ok \in BOOLEAN : program' = ProgramLink(program, ok)
    /\ pc' = "h130"
    /\ trace' = Append(trace, Event("program_link", {"program"}))
    /\ UNCHANGED <<prog, initCount, finalCount, heap, shader, size, words,
                   disassembled, spirv_messages, status>>

\* line 118: if (!glslang_program_link(program, ...))
H_Link ==
    /\ prog = "harness"
    /\ pc = "h118"
    /\ \E ok \in BOOLEAN :
         LET p == ProgramLink(program, ok) IN
         /\ program' = p
         /\ pc' = IF p.state = "linked" THEN "h130" ELSE "h120"
    /\ trace' = Append(trace, Event("program_link", {"program"}))
    /\ UNCHANGED <<prog, initCount, finalCount, heap, shader, size, words,
                   disassembled, spirv_messages, status>>

\* line 120: printf(glslang_program_get_info_log(program))
H_LinkFail_InfoLog ==
    /\ prog = "harness"
    /\ Step("h120", "h121", "program_get_info_log", "program")
    /\ UNCHANGED <<prog, initCount, finalCount, heap, shader, program, size,
                   words, disassembled, spirv_messages, status>>

\* line 121: printf(glslang_program_get_info_debug_log(program))
H_LinkFail_DebugLog ==
    /\ prog = "harness"
    /\ Step("h121", "h122", "program_get_info_debug_log", "program")
    /\ UNCHANGED <<prog, initCount, finalCount, heap, shader, program, size,
                   words, disassembled, spirv_messages, status>>

\* variant of H_LinkFail_ProgramDelete: the program is not deleted
H_LinkFail_ProgramDelete_Omitted ==
    /\ prog = "harness"
    /\ pc = "h122"
    /\ pc' = "h123"
    /\ UNCHANGED <<prog, initCount, finalCount, heap, shader, program, size,
                   words, disassembled, spirv_messages, status, trace>>

\* line 122: glslang_program_delete(program)
H_LinkFail_ProgramDelete ==
    /\ prog = "harness"
    /\ Step("h122", "h123", "program_delete", "program")
    /\ heap' = [heap EXCEPT !["program"] = "freed"]
    /\ UNCHANGED <<prog, initCount, finalCount, shader, program, size, words,
                   disassembled, spirv_messages, status>>

\* line 123: glslang_shader_delete(shader)
H_LinkFail_ShaderDelete ==
    /\ prog = "harness"
    /\ Step("h123", "h124", "shader_delete", "shader")
    /\ heap' = [heap EXCEPT !["shader"] = "freed"]
    /\ UNCHANGED <<prog, initCount, finalCount, shader, program, size, words,
                   disassembled, spirv_messages, status>>

\* line 124: glslang_finalize_process()
H_LinkFail_FinalizeProcess ==
    /\ prog = "harness"
    /\ Step("h124", "h125", "finalize_process", "none")
    /\ finalCount' = finalCount + 1
    /\ UNCHANGED <<prog, initCount, heap, shader, program, size, words,
                   disassembled, spirv_messages, status>>

\* variant of H_LinkFail_Return: returns 0
H_LinkFail_Return_Zero ==
    /\ prog = "harness"
    /\ Step("h125", "exit", "return", "none")
    /\ status' = 0
    /\ UNCHANGED <<prog, initCount, finalCount, heap, shader, program, size,
                   words, disassembled, spirv_messages>>

\* line 125: return 1
H_LinkFail_Return ==
    /\ prog = "harness"
    /\ Step("h125", "exit", "return", "none")
    /\ status' = 1
    /\ UNCHANGED <<prog, initCount, finalCount, heap, shader, program, size,
                   words, disassembled, spirv_messages>>

----------------------------------------------------------------------------
(* minimal-test.cpp: generation, retrieval and disassembly, lines 130-162 *)

\* line 130: glslang_program_SPIRV_generate(program, stage)
H_Generate ==
    /\ prog = "harness"
    /\ pc = "h130"
    /\ pc' = "h134"
    /\ \E body \in SeqsUpTo(BodyWords, MaxBody), msgs \in {"null", "text"} :
         program' = ProgramGenerate(program, body, msgs)
    /\ trace' = Append(trace, Event("program_SPIRV_generate", {"program"}))
    /\ UNCHANGED <<prog, initCount, finalCount, heap, shader, size, words,
                   disassembled, spirv_messages, status>>

\* line 134: size = glslang_program_SPIRV_get_size(program)
H_GetSize ==
    /\ prog = "harness"
    /\ Step("h134", "h135", "program_SPIRV_get_size", "program")
    /\ size' = Len(program.spirv)
    /\ UNCHANGED <<prog, initCount, finalCount, heap, shader, program, words,
                   disassembled, spirv_messages, status>>

\* line 135: words = malloc(size * sizeof(uint32_t)), contents not yet set
H_Malloc ==
    /\ prog = "harness"
    /\ Step("h135", "h136", "malloc", "words")
    /\ heap' = [heap EXCEPT !["words"] = "live"]
    /\ words' = [i \in 1..size |-> -1]
    /\ UNCHANGED <<prog, initCount, finalCount, shader, program, size,
                   disassembled, spirv_messages, status>>

\* line 136: glslang_program_SPIRV_get(program, words)
H_SpirvGet ==
    /\ prog = "harness"
    /\ pc = "h136"
    /\ pc' = "h140"
    /\ trace' = Append(trace, Event("program_SPIRV_get",
                                    {"program", "words"}))
    /\ words' = program.spirv
    /\ UNCHANGED <<prog, initCount, finalCount, heap, shader, program, size,
                   disassembled, spirv_messages, status>>

\* lines 140-141: spirv_messages = glslang_program_SPIRV_get_messages(program)
H_GetMessages ==
    /\ prog = "harness"
    /\ pc = "h140"
    /\ spirv_messages' = program.messages
    /\ pc' = IF program.messages # "null" THEN "h142" ELSE "h146"
    /\ trace' = Append(trace, Event("program_SPIRV_get_messages",
                                    {"program"}))
    /\ UNCHANGED <<prog, initCount, finalCount, heap, shader, program, size,
                   words, disassembled, status>>

\* line 142: printf(spirv_messages), a string the program owns
H_PrintMessages ==
    /\ prog = "harness"
    /\ Step("h142", "h146", "print_messages", "program")
    /\ UNCHANGED <<prog, initCount, finalCount, heap, shader, program, size,
                   words, disassembled, spirv_messages, status>>

\* line 146: glslang_program_delete(program)
H_ProgramDelete ==
    /\ prog = "harness"
    /\ Step("h146", "h147", "program_delete", "program")
    /\ heap' = [heap EXCEPT !["program"] = "freed"]
    /\ UNCHANGED <<prog, initCount, finalCount, shader, program, size, words,
                   disassembled, spirv_messages, status>>

\* line 147: glslang_shader_delete(shader)
H_ShaderDelete ==
    /\ prog = "harness"
    /\ Step("h147", "h151", "shader_delete", "shader")
    /\ heap' = [heap EXCEPT !["shader"] = "freed"]
    /\ UNCHANGED <<prog, initCount, finalCount, shader, program, size, words,
                   disassembled, spirv_messages, status>>

\* variant of H_Disassemble: disassembles the words held by the program
H_Disassemble_FromProgram ==
    /\ prog = "harness"
    /\ Step("h151", "h155", "SPIRV_disassemble", "program")
    /\ disassembled' = Disassemble(program.spirv, size)
    /\ heap' = [heap EXCEPT !["disassembled"] = "live"]
    /\ UNCHANGED <<prog, initCount, finalCount, shader, program, size, words,
                   spirv_messages, status>>

\* line 151: disassembled = glslang_SPIRV_disassemble(words, size)
H_Disassemble ==
    /\ prog = "harness"
    /\ Step("h151", "h155", "SPIRV_disassemble", "words")
    /\ disassembled' = Disassemble(words, size)
    /\ heap' = [heap EXCEPT !["disassembled"] = "live"]
    /\ UNCHANGED <<prog, initCount, finalCount, shader, program, size, words,
                   spirv_messages, status>>

\* line 155: std::cout << size
H_PrintSize ==
    /\ prog = "harness"
    /\ Step("h155", "h156", "print_size", "none")
    /\ UNCHANGED <<prog, initCount, finalCount, heap, shader, program, size,
                   words, disassembled, spirv_messages, status>>

\* line 156: std::cout << disassembled
H_PrintDisassembled ==
    /\ prog = "harness"
    /\ Step("h156", "h158", "print_disassembled", "disassembled")
    /\ UNCHANGED <<prog, initCount, finalCount, heap, shader, program, size,
                   words, disassembled, spirv_messages, status>>

\* line 158: free(disassembled)
H_FreeDisassembled ==
    /\ prog = "harness"
    /\ Step("h158", "h159", "free", "disassembled")
    /\ heap' = [heap EXCEPT !["disassembled"] = "freed"]
    /\ UNCHANGED <<prog, initCount, finalCount, shader, program, size, words,
                   disassembled, spirv_messages, status>>

\* line 159: free(words)
H_FreeWords ==
    /\ prog = "harness"
    /\ Step("h159", "h161", "free", "words")
    /\ heap' = [heap EXCEPT !["words"] = "freed"]
    /\ UNCHANGED <<prog, initCount, finalCount, shader, program, size, words,
                   disassembled, spirv_messages, status>>

\* line 161: glslang_finalize_process()
H_FinalizeProcess ==
    /\ prog = "harness"
    /\ Step("h161", "h162", "finalize_process", "none")
    /\ finalCount' = finalCount + 1
    /\ UNCHANGED <<prog, initCount, heap, shader, program, size, words,
                   disassembled, spirv_messages, status>>

\* line 162: main() ends, returning 0
H_Return ==
    /\ prog = "harness"
    /\ Step("h162", "exit", "return", "none")
    /\ status' = 0
    /\ UNCHANGED <<prog, initCount, finalCount, heap, shader, program, size,
                   words, disassembled, spirv_messages>>

----------------------------------------------------------------------------
(* shared_glslang.cpp: main() *)

\* line 11: glslang_initialize_process()
S_InitializeProcess ==
    /\ prog = "smoke"
    /\ Step("s11", "s12", "initialize_process", "none")
    /\ initCount' = initCount + 1
    /\ UNCHANGED <<prog, finalCount, heap, shader, program, size, words,
                   disassembled, spirv_messages, status>>

\* line 12: glslang_default_resource()
S_DefaultResource ==
    /\ prog = "smoke"
    /\ Step("s12", "s13", "default_resource", "none")
    /\ UNCHANGED <<prog, initCount, finalCount, heap, shader, program, size,
                   words, disassembled, spirv_messages, status>>

\* variant of S_Disassemble: the call ends the process with status 1
S_Disassemble_Exits ==
    /\ prog = "smoke"
    /\ Step("s13", "exit", "SPIRV_disassemble", "none")
    /\ status' = 1
    /\ UNCHANGED <<prog, initCount, finalCount, heap, shader, program, size,
                   words, disassembled, spirv_messages>>

\* line 13: glslang_SPIRV_disassemble(nullptr, 0), result not kept
S_Disassemble ==
    /\ prog = "smoke"
    /\ Step("s13", "s14", "SPIRV_disassemble", "none")
    /\ disassembled' = Disassemble(<<>>, 0)
    /\ heap' = [heap EXCEPT !["disassembled"] = "live"]
    /\ UNCHANGED <<prog, initCount, finalCount, shader, program, size, words,
                   spirv_messages, status>>

\* line 14: glslang_finalize_process()
S_FinalizeProcess ==
    /\ prog = "smoke"
    /\ Step("s14", "s15", "finalize_process", "none")
    /\ finalCount' = finalCount + 1
    /\ UNCHANGED <<prog, initCount, heap, shader, program, size, words,
                   disassembled, spirv_messages, status>>

\* line 15: main() ends, returning 0
S_Return ==
    /\ prog = "smoke"
    /\ Step("s15", "exit", "return", "none")
    /\ status' = 0
    /\ UNCHANGED <<prog, initCount, finalCount, heap, shader, program, size,
                   words, disassembled, spirv_messages>>

----------------------------------------------------------------------------

Next ==
    \/ H_InitializeProcess
    \/ H_DefaultResource
    \/ H_ShaderCreate
    \/ H_Preprocess
    \/ H_PreprocessFail_InfoLog
    \/ H_PreprocessFail_DebugLog
    \/ H_PreprocessFail_PrintCode
    \/ H_PreprocessFail_ShaderDelete
    \/ H_PreprocessFail_Return
    \/ H_Parse
    \/ H_ParseFail_InfoLog
    \/ H_ParseFail_DebugLog
    \/ H_ParseFail_PreprocessedCode
    \/ H_ParseFail_ShaderDelete
    \/ H_ParseFail_FinalizeProcess
    \/ H_ParseFail_Return
    \/ H_ProgramCreate
    \/ H_ProgramAddShader
    \/ H_Link
    \/ H_LinkFail_InfoLog
    \/ H_LinkFail_DebugLog
    \/ H_LinkFail_ProgramDelete
    \/ H_LinkFail_ShaderDelete
    \/ H_LinkFail_FinalizeProcess
    \/ H_LinkFail_Return
    \/ H_Generate
    \/ H_GetSize
    \/ H_Malloc
    \/ H_SpirvGet
    \/ H_GetMessages
    \/ H_PrintMessages
    \/ H_ProgramDelete
    \/ H_ShaderDelete
    \/ H_Disassemble
    \/ H_PrintSize
    \/ H_PrintDisassembled
    \/ H_FreeDisassembled
    \/ H_FreeWords
    \/ H_FinalizeProcess
    \/ H_Return
    \/ S_InitializeProcess
    \/ S_DefaultResource
    \/ S_Disassemble
    \/ S_FinalizeProcess
    \/ S_Return

Spec == Init /\ [][Next]_vars

----------------------------------------------------------------------------
(* Vocabulary of the properties *)

Idx == 1..Len(trace)

Range(q) == {q[i] : i \in DOMAIN q}

\* positions of the calls of `op`
At(op) == {i \in Idx : trace[i].op = op}

Count(op) == Cardinality(At(op))

\* `op` was called before position i
CalledBefore(op, i) == \E j \in 1..(i - 1) : trace[j].op = op

PreprocessFailed == "PreprocessError" \in Range(shader.log)
ParseFailed == "ParseError" \in Range(shader.log)
LinkFailed == "LinkError" \in Range(program.log)

\* position i is the call of a stage that reported failure
FailedCall(i) ==
    \/ PreprocessFailed /\ trace[i].op = "shader_preprocess"
    \/ ParseFailed /\ trace[i].op = "shader_parse"
    \/ LinkFailed /\ trace[i].op = "program_link"

\* the stages that follow preprocess
AfterPreprocessOps ==
    {"shader_parse", "program_add_shader", "program_link",
     "program_SPIRV_generate", "SPIRV_disassemble"}

\* the calls that run or consume a stage of the pipeline
PipelineOps ==
    AfterPreprocessOps \cup
    {"shader_preprocess", "program_SPIRV_get_size", "program_SPIRV_get"}

\* every library call other than process set-up and teardown
LibraryOps ==
    PipelineOps \cup
    {"default_resource", "shader_create", "shader_delete",
     "shader_get_info_log", "shader_get_info_debug_log",
     "shader_get_preprocessed_code", "program_create", "program_delete",
     "program_get_info_log", "program_get_info_debug_log",
     "program_SPIRV_get_messages"}

CreateOp(o) == IF o = "shader" THEN "shader_create" ELSE "program_create"
DeleteOp(o) == IF o = "shader" THEN "shader_delete" ELSE "program_delete"

\* the step being taken is a call of `op`
Calls(op) ==
    /\ Len(trace') = Len(trace) + 1
    /\ trace'[Len(trace')].op = op

----------------------------------------------------------------------------
(* C1 *)

\* C1: in a run of the harness, parse and every later stage (add to
\* program, link, generate, disassemble) are called only after a call of
\* preprocess, and never once preprocess has failed.
C1_NoParseAfterPreprocessFailure ==
    prog = "harness" =>
        \A i \in Idx :
            trace[i].op \in AfterPreprocessOps =>
                /\ CalledBefore("shader_preprocess", i)
                /\ ~PreprocessFailed

C1_Witness ==
    /\ prog = "harness"
    /\ pc = "exit"
    /\ PreprocessFailed
    /\ Count("shader_preprocess") = 1

----------------------------------------------------------------------------
(* C2 *)

\* C2: every stage is called at most once per run, and after the call of a
\* stage that failed (preprocess, parse or link) no pipeline call follows:
\* no later stage, no retry, no generate, SPIR-V retrieval or disassemble.
C2_FailureHaltsPipeline ==
    prog = "harness" =>
        /\ \A op \in PipelineOps : Count(op) <= 1
        /\ \A i \in Idx :
              FailedCall(i) =>
                  \A j \in (i + 1)..Len(trace) : trace[j].op \notin PipelineOps

C2_Witness ==
    /\ prog = "harness"
    /\ pc = "exit"
    /\ LinkFailed
    /\ Count("program_link") = 1

----------------------------------------------------------------------------
(* C3 *)

\* C3: when main() of the harness has returned, on any path,
\* glslang_initialize_process has been called exactly once and
\* glslang_finalize_process exactly once.
C3_InitFinalizePaired ==
    (prog = "harness" /\ pc = "exit") => (initCount = 1 /\ finalCount = 1)

----------------------------------------------------------------------------
(* C4 *)

\* C4: every library call comes after process initialization and before
\* process teardown, and at the call of teardown every shader and program
\* created so far has been deleted.
C4_LibraryUseInsideInitTeardown ==
    /\ \A i \in Idx :
          trace[i].op \in LibraryOps =>
              /\ CalledBefore("initialize_process", i)
              /\ ~CalledBefore("finalize_process", i)
    /\ \A i \in At("finalize_process") :
          /\ CalledBefore("initialize_process", i)
          /\ \A o \in {"shader", "program"} :
                CalledBefore(CreateOp(o), i) => CalledBefore(DeleteOp(o), i)

C4_Witness ==
    /\ pc = "exit"
    /\ finalCount = 1
    /\ heap["program"] = "freed"
    /\ heap["shader"] = "freed"
    /\ LinkFailed

----------------------------------------------------------------------------
(* C5 *)

\* C5: a shader or program is never deleted more often than it was created
\* nor more than once, and when the harness returns from a failed run every
\* shader and program it created has been deleted exactly once.
C5_FailurePathsReleaseObjects ==
    prog = "harness" =>
        \A o \in {"shader", "program"} :
            /\ Count(DeleteOp(o)) <= Count(CreateOp(o))
            /\ Count(DeleteOp(o)) <= 1
            /\ (pc = "exit" /\ status # 0) =>
                  /\ Count(DeleteOp(o)) = Count(CreateOp(o))
                  /\ heap[o] # "live"

C5_Witness ==
    /\ prog = "harness"
    /\ pc = "exit"
    /\ status # 0
    /\ ParseFailed
    /\ Count("shader_create") = 1
    /\ Count("shader_delete") = 1

----------------------------------------------------------------------------
(* C6 *)

\* C6: no call uses a shader or program that was deleted before it; the
\* SPIR-V size and words are taken from the program before its deletion;
\* disassemble and the final prints use only the caller's buffer and the
\* disassembly text, after program and shader are deleted, and the buffer
\* then holds exactly the generated words.
C6_BinaryModuleOutlivesProgram ==
    prog = "harness" =>
        /\ \A i \in Idx : \A o \in trace[i].objs \cap {"shader", "program"} :
              ~CalledBefore(DeleteOp(o), i)
        /\ \A i \in Idx :
              trace[i].op \in {"SPIRV_disassemble", "print_size",
                               "print_disassembled"} =>
                  /\ trace[i].objs \subseteq {"words", "disassembled"}
                  /\ CalledBefore("program_SPIRV_get_size", i)
                  /\ CalledBefore("program_SPIRV_get", i)
                  /\ CalledBefore("program_delete", i)
                  /\ CalledBefore("shader_delete", i)
        /\ heap["disassembled"] # "none" =>
              /\ words = program.spirv
              /\ size = Len(program.spirv)
              /\ disassembled = Disassemble(program.spirv, Len(program.spirv))

C6_Witness ==
    /\ prog = "harness"
    /\ pc = "exit"
    /\ status = 0
    /\ heap["program"] = "freed"
    /\ heap["shader"] = "freed"
    /\ Count("print_disassembled") = 1
    /\ Len(words) > 2

----------------------------------------------------------------------------
(* C7 *)

\* position i reads or writes buffer b
UsesBuffer(i, b) == b \in trace[i].objs /\ trace[i].op # "free"

FreesOf(b) == {i \in At("free") : b \in trace[i].objs}

\* C7: in both programs, when main() has returned, every buffer whose
\* ownership passed to the caller (the SPIR-V words and the disassembly
\* text) has been freed exactly once, and no buffer is used after its free.
C7_BuffersReleasedOnce ==
    \A b \in {"words", "disassembled"} :
        /\ Cardinality(FreesOf(b)) <= 1
        /\ \A i \in FreesOf(b) : \A j \in (i + 1)..Len(trace) :
              ~UsesBuffer(j, b)
        /\ pc = "exit" => heap[b] # "live"

----------------------------------------------------------------------------
(* C8 *)

----------------------------------------------------------------------------
(* C9 *)

\* the entry-point names the module declares
EntryNames(ws) ==
    {Names[ws[i] % WordBase] :
        i \in {k \in DOMAIN ws : ws[k] \div WordBase = OpEntryPoint}}

----------------------------------------------------------------------------
(* C10 *)

\* the calls of `first` and `second` both happened after the failed stage
\* call at i, in that order, and before the deletion `del`
ReportedInOrder(i, first, second, del) ==
    \E a \in At(first), b \in At(second), d \in At(del) :
        i < a /\ a < b /\ b < d

\* C10: when the harness has returned after a failed stage, the info log
\* and then the debug log of the failing object were read after the failure
\* and before the object's deletion (for a parse failure the preprocessed
\* code too), and main() returned non-zero; it returns zero exactly when
\* no stage failed.
C10_DiagnosticsBeforeAbort ==
    (prog = "harness" /\ pc = "exit") =>
        /\ status = 0 <=> ~(PreprocessFailed \/ ParseFailed \/ LinkFailed)
        /\ status = 0 => program.state = "generated"
        /\ \A i \in At("shader_preprocess") :
              PreprocessFailed =>
                  ReportedInOrder(i, "shader_get_info_log",
                                  "shader_get_info_debug_log",
                                  "shader_delete")
        /\ \A i \in At("shader_parse") :
              ParseFailed =>
                  /\ ReportedInOrder(i, "shader_get_info_log",
                                     "shader_get_info_debug_log",
                                     "shader_delete")
                  /\ ReportedInOrder(i, "shader_get_info_debug_log",
                                     "shader_get_preprocessed_code",
                                     "shader_delete")
        /\ \A i \in At("program_link") :
              LinkFailed =>
                  ReportedInOrder(i, "program_get_info_log",
                                  "program_get_info_debug_log",
                                  "program_delete")

C10_Witness ==
    /\ prog = "harness"
    /\ pc = "exit"
    /\ status = 1
    /\ ParseFailed
    /\ Count("shader_get_preprocessed_code") = 1

====
